---- MODULE Spec2Model ----
(***************************************************************************)
(* A model of npm-pdf-markup: the markup parser parseMarkup               *)
(* (src/src/index.ts), and the rendering call generatePdf with its        *)
(* collaborators loadConfig (src/src/config.ts) and loadFonts             *)
(* (src/src/fonts.ts).                                                     *)
(*                                                                         *)
(* A string is a sequence of one-character strings, indices are kept      *)
(* 0-based where the code keeps them (lastIndex, match.index).  An        *)
(* optional value (T | undefined) is <<>> when undefined and <<v>> when   *)
(* set.  A JavaScript number that may leave the integers is a record      *)
(* [k, v] with k one of "fin", "inf", "nan".                               *)
(***************************************************************************)
EXTENDS Integers, Sequences, FiniteSets, TLC

VARIABLES
    \* ---- parseMarkup (index.ts 115-189) ----
    line,           \* the argument of parseMarkup
    fragments,      \* const fragments: TextFragment[]
    bold,           \* let bold
    italic,         \* let italic
    fontSize,       \* let fontSize: number | undefined
    color,          \* let color: {r,g,b} | undefined
    currentMargin,  \* let currentMargin
    lastIndex,      \* let lastIndex
    tags,           \* the values of match[1] the loop has seen so far
    ppc,            \* position in parseMarkup: "idle", "scan", "done"
    \* ---- generatePdf (index.ts 198-280) ----
    pc,             \* position in generatePdf
    opts,           \* the GeneratePdfOptions argument
    configFile,     \* what is on disk for loadConfig
    config,         \* const config
    resolved,       \* outputDir, documentName, margin, fontSize, lineHeight, pageSize, color
    fs,             \* the file system: directory created, pdf file written
    lineNo,         \* number of lines of text.split("\n") the loop has finished
    y,              \* let y
    draws,          \* the page.drawText calls so far
    ytrace,         \* per finished line: y before it, y its fragments are drawn at, y after it
    failure,        \* which step rejected the call, "" if none
    \* ---- several generatePdf calls in flight (README.md 294-307) ----
    now,            \* what Date.now() returns
    calls,          \* per call: its position, argument, locals and document
    disk            \* the output directories and the files written, shared by the calls

pvars == <<line, fragments, bold, italic, fontSize, color, currentMargin, lastIndex, tags, ppc>>
gvars == <<pc, opts, configFile, config, resolved, fs, lineNo, y, draws, ytrace, failure>>
cvars == <<now, calls, disk>>
vars == <<pvars, gvars, cvars>>

(***************************************************************************)
(* Bounds of the model.                                                    *)
(***************************************************************************)
\* pieces concatenated into a line handed to parseMarkup
MaxPieces == 3
\* pieces concatenated into the text handed to generatePdf
MaxTextPieces == 4
\* generatePdf calls in flight together
MaxCalls == 2
\* the largest value of the millisecond clock
MaxClock == 2

(***************************************************************************)
(* Optional values and strings.                                            *)
(***************************************************************************)
None == <<>>
Some(v) == <<v>>
Get(o) == o[1]
\* o ?? d
OrElse(o, d) == IF o = <<>> THEN d ELSE o[1]

Digits == {"0", "1", "2", "3", "4", "5", "6", "7", "8", "9"}
HexLetters == {"A", "B", "C", "D", "E", "F", "a", "b", "c", "d", "e", "f"}

HexVal(c) ==
    CASE c = "0" -> 0 [] c = "1" -> 1 [] c = "2" -> 2 [] c = "3" -> 3
      [] c = "4" -> 4 [] c = "5" -> 5 [] c = "6" -> 6 [] c = "7" -> 7
      [] c = "8" -> 8 [] c = "9" -> 9
      [] c \in {"A", "a"} -> 10 [] c \in {"B", "b"} -> 11
      [] c \in {"C", "c"} -> 12 [] c \in {"D", "d"} -> 13
      [] c \in {"E", "e"} -> 14 [] c \in {"F", "f"} -> 15

\* /^\d+$/ and the \d+ of the tag regex
AllDigits(s) == Len(s) >= 1 /\ \A k \in 1..Len(s) : s[k] \in Digits
\* [0-9A-Fa-f]{6}
SixHex(s) == Len(s) = 6 /\ \A k \in 1..6 : s[k] \in Digits \cup HexLetters

\* parseInt(s, radix) of a string of digits of that radix
RECURSIVE parseInt(_, _)
parseInt(s, radix) ==
    IF s = <<>> THEN 0
    ELSE parseInt(SubSeq(s, 1, Len(s) - 1), radix) * radix + HexVal(s[Len(s)])

\* s.slice(a, b), 0-based, b exclusive
slice(s, a, b) == SubSeq(s, a + 1, b)
\* s.startsWith(p)
startsWith(s, p) == Len(s) >= Len(p) /\ SubSeq(s, 1, Len(p)) = p
\* s.replace("#", ""): the first "#" only
replaceHash(s) ==
    IF \E k \in 1..Len(s) : s[k] = "#"
    THEN LET k == CHOOSE j \in 1..Len(s) : s[j] = "#" /\ \A h \in 1..(j - 1) : s[h] # "#"
         IN  SubSeq(s, 1, k - 1) \o SubSeq(s, k + 1, Len(s))
    ELSE s

(***************************************************************************)
(* hexToRgb                                                                *)
(***************************************************************************)
hexToRgb(hex) ==
    LET clean == replaceHash(hex)
        bigint == parseInt(clean, 16)
    IN  [r |-> (bigint \div 65536) % 256, g |-> (bigint \div 256) % 256, b |-> bigint % 256]

(***************************************************************************)
(* The tag regex                                                           *)
(*   /<(\/?b|\/?i|\/?\d+|#?[0-9A-Fa-f]{6}|m[trbl]\d+|\/m)>/g               *)
(* No alternative matches "<" or ">", so a match at p is "<", then the     *)
(* text up to the first ">" after p, and that text is what one of the      *)
(* alternatives matches in full; it is the capture match[1].               *)
(***************************************************************************)
AltBold(s) == s = <<"b">> \/ s = <<"/", "b">>
AltItalic(s) == s = <<"i">> \/ s = <<"/", "i">>
AltSize(s) == AllDigits(s) \/ (Len(s) >= 2 /\ s[1] = "/" /\ AllDigits(Tail(s)))
AltColor(s) == SixHex(s) \/ (Len(s) = 7 /\ s[1] = "#" /\ SixHex(Tail(s)))
marginRegex(s) == Len(s) >= 3 /\ s[1] = "m" /\ s[2] \in {"t", "r", "b", "l"}
                  /\ AllDigits(SubSeq(s, 3, Len(s)))
AltMarginReset(s) == s = <<"/", "m">>

regex(s) == AltBold(s) \/ AltItalic(s) \/ AltSize(s) \/ AltColor(s)
            \/ marginRegex(s) \/ AltMarginReset(s)

\* the 0-based index of the first ">" after index p, Len(s) if there is none
FirstGt(s, p) ==
    IF \E q \in (p + 1)..(Len(s) - 1) : s[q + 1] = ">"
    THEN CHOOSE q \in (p + 1)..(Len(s) - 1) :
            s[q + 1] = ">" /\ \A h \in (p + 1)..(q - 1) : s[h + 1] # ">"
    ELSE Len(s)

\* the regex matches at 0-based index p
MatchAt(s, p) ==
    /\ p < Len(s)
    /\ s[p + 1] = "<"
    /\ FirstGt(s, p) < Len(s)
    /\ regex(slice(s, p + 1, FirstGt(s, p)))

HasMatch(s, from) == \E p \in from..(Len(s) - 1) : MatchAt(s, p)

\* the next element of line.matchAll(regex) at or after index from:
\* index is match.index, end is match.index + match[0].length, tag is match[1]
NextMatch(s, from) ==
    LET p == CHOOSE q \in from..(Len(s) - 1) :
                MatchAt(s, q) /\ \A h \in from..(q - 1) : ~MatchAt(s, h)
    IN  [index |-> p, end |-> FirstGt(s, p) + 1, tag |-> slice(s, p + 1, FirstGt(s, p))]

(***************************************************************************)
(* The style state of parseMarkup and the effect of one tag on it          *)
(* (index.ts 145-172).                                                     *)
(***************************************************************************)
NoMargin == [top |-> None, bottom |-> None, left |-> None, right |-> None]

InitStyle == [bold |-> FALSE, italic |-> FALSE, fontSize |-> None, color |-> None,
              currentMargin |-> NoMargin]

\* ApplyMarginTag with the margin record rebuilt from the tag alone
ApplyMarginTagFresh(m, tag) ==
    IF marginRegex(tag)
    THEN LET dir == tag[2]
             value == parseInt(SubSeq(tag, 3, Len(tag)), 10)
         IN  CASE dir = "t" -> [NoMargin EXCEPT !.top = Some(value)]
               [] dir = "b" -> [NoMargin EXCEPT !.bottom = Some(value)]
               [] dir = "l" -> [NoMargin EXCEPT !.left = Some(value)]
               [] dir = "r" -> [NoMargin EXCEPT !.right = Some(value)]
    ELSE m

ApplyMarginTag(m, tag) ==
    IF marginRegex(tag)
    THEN LET dir == tag[2]
             value == parseInt(SubSeq(tag, 3, Len(tag)), 10)
         IN  CASE dir = "t" -> [m EXCEPT !.top = Some(value)]
               [] dir = "b" -> [m EXCEPT !.bottom = Some(value)]
               [] dir = "l" -> [m EXCEPT !.left = Some(value)]
               [] dir = "r" -> [m EXCEPT !.right = Some(value)]
    ELSE m

\* ApplyTag with a size close tag that clears only the size it names
ApplyTagMatchingClose(st, tag) ==
    CASE tag = <<"b">> -> [st EXCEPT !.bold = TRUE]
      [] tag = <<"/", "b">> -> [st EXCEPT !.bold = FALSE]
      [] tag = <<"i">> -> [st EXCEPT !.italic = TRUE]
      [] tag = <<"/", "i">> -> [st EXCEPT !.italic = FALSE]
      [] OTHER ->
         IF AllDigits(tag) THEN [st EXCEPT !.fontSize = Some(parseInt(tag, 10))]
         ELSE IF Len(tag) >= 2 /\ tag[1] = "/" /\ AllDigits(Tail(tag))
              THEN (IF st.fontSize = Some(parseInt(Tail(tag), 10))
                    THEN [st EXCEPT !.fontSize = None] ELSE st)
         ELSE IF startsWith(tag, <<"#">>) THEN [st EXCEPT !.color = Some(hexToRgb(tag))]
         ELSE IF startsWith(tag, <<"/", "#">>) THEN [st EXCEPT !.color = None]
         ELSE IF tag = <<"/", "m">> THEN [st EXCEPT !.currentMargin = NoMargin]
         ELSE [st EXCEPT !.currentMargin = ApplyMarginTag(st.currentMargin, tag)]

ApplyTag(st, tag) ==
    CASE tag = <<"b">> -> [st EXCEPT !.bold = TRUE]
      [] tag = <<"/", "b">> -> [st EXCEPT !.bold = FALSE]
      [] tag = <<"i">> -> [st EXCEPT !.italic = TRUE]
      [] tag = <<"/", "i">> -> [st EXCEPT !.italic = FALSE]
      [] OTHER ->
         IF AllDigits(tag) THEN [st EXCEPT !.fontSize = Some(parseInt(tag, 10))]
         ELSE IF Len(tag) >= 2 /\ tag[1] = "/" /\ AllDigits(Tail(tag))
              THEN [st EXCEPT !.fontSize = None]
         ELSE IF startsWith(tag, <<"#">>) THEN [st EXCEPT !.color = Some(hexToRgb(tag))]
         ELSE IF startsWith(tag, <<"/", "#">>) THEN [st EXCEPT !.color = None]
         ELSE IF tag = <<"/", "m">> THEN [st EXCEPT !.currentMargin = NoMargin]
         ELSE [st EXCEPT !.currentMargin = ApplyMarginTag(st.currentMargin, tag)]

\* the object pushed on fragments (index.ts 135-142, 178-185)
Fragment(text, st) ==
    [text |-> text, bold |-> st.bold, italic |-> st.italic, fontSize |-> st.fontSize,
     color |-> st.color, margin |-> st.currentMargin]

\* parseMarkup from index lastIndex on, as a function of the line
RECURSIVE parseFrom(_, _, _, _)
parseFrom(s, st, li, frags) ==
    IF HasMatch(s, li)
    THEN LET m == NextMatch(s, li)
             pushed == IF m.index > li
                       THEN Append(frags, Fragment(slice(s, li, m.index), st))
                       ELSE frags
         IN  parseFrom(s, ApplyTag(st, m.tag), m.end, pushed)
    ELSE IF li < Len(s)
         THEN Append(frags, Fragment(slice(s, li, Len(s)), st))
         ELSE frags

parseMarkup(s) == parseFrom(s, InitStyle, 0, <<>>)

(***************************************************************************)
(* The inputs of parseMarkup: lines of at most MaxPieces pieces, each a    *)
(* tag of the documented grammar, angle-bracket text outside it, or plain  *)
(* text; and the example lines of the documentation.                       *)
(***************************************************************************)
GrammarPieces ==
    { <<"<", "b", ">">>,
      <<"<", "/", "b", ">">>,
      <<"<", "1", "2", ">">>,
      <<"<", "/", "1", "8", ">">>,
      <<"<", "#", "F", "F", "0", "0", "0", "0", ">">>,
      <<"<", "/", "#", ">">>,
      <<"<", "m", "t", "4", ">">>,
      <<"<", "m", "l", "1", "0", ">">>,
      <<"<", "/", "m", ">">> }

OtherPieces ==
    { <<"<", "A", "B", "C", "D", "E", "F", ">">>,
      <<"x">> }

Pieces == GrammarPieces \cup OtherPieces

ExampleLines ==
    { <<"<", "m", "t", ">", "x", "<", "m", "r", "3", ">", "y">>,
      <<"<", "#", "F", "F", "0", "0", "0", "0", ">", "R", "e", "d", "<", "/", "#", ">", "N", "o", "r", "m", "a", "l">>,
      <<"<", "1", "2", ">", "<", "1", "8", ">", "x", "<", "/", "1", "2", ">">>,
      <<"<", "1", "2", ">", "<", "1", "8", ">", "x", "<", "/", "1", "2", ">", "y">>,
      <<"<", "b", ">", "H", "i", "<", "/", "b", ">", " ", "<", "2", "4", ">", "B", "i", "g", "<", "/", "2", "4", ">">>,
      <<"<", "b", ">", "<", "i", ">", "x", "<", "/", "b", ">", "y", "<", "/", "i", ">", "z", "<", "/", "i", ">", "w">>,
      <<"<", "i", ">", "x", "<", "/", "i", ">", "y">>,
      <<"<", "/", "i", ">", "x">>,
      <<"<", "x", ">", "y">>,
      <<"<", "m", "t", "4", ">", "<", "m", "r", "3", ">", "x", "<", "b", ">", "y", "<", "/", "m", ">", "z">>,
      <<"<", "b", ">", "<", "i", ">", "<", "1", "8", ">", "<", "#", "0", "0", "f", "f", "7", "F", ">", "<", "m", "b", "5", ">", "x", "<", "/", "m", ">", "y">>,
      <<"<", "B", ">", "x", "<", "m", ">", "y", "<", "1", "2", "3", "4", "5", "6", ">", "z">>,
      <<"<", "m", "t", "4", ">", "<", "m", "b", "5", ">", "<", "m", "l", "1", "0", ">", "<", "m", "r", "3", ">", "x", "<", "/", "m", ">", "y", "<", "m", "l", "7", ">", "z">> }

RECURSIVE Flatten(_)
Flatten(ps) == IF ps = <<>> THEN <<>> ELSE Head(ps) \o Flatten(Tail(ps))

PieceSeqs(S, n) == UNION { [1..k -> S] : k \in 0..n }

Lines == { Flatten(ps) : ps \in PieceSeqs(Pieces, MaxPieces) } \cup ExampleLines

(***************************************************************************)
(* parseMarkup, one loop iteration per step.                               *)
(***************************************************************************)
Style == [bold |-> bold, italic |-> italic, fontSize |-> fontSize, color |-> color,
          currentMargin |-> currentMargin]

ParseIdle ==
    /\ line = <<>> /\ fragments = <<>> /\ bold = FALSE /\ italic = FALSE
    /\ fontSize = None /\ color = None /\ currentMargin = NoMargin
    /\ lastIndex = 0 /\ tags = <<>> /\ ppc = "idle"

\* index.ts 116-130: the state before the first iteration
InitParse ==
    /\ line \in Lines
    /\ fragments = <<>>
    /\ bold = FALSE
    /\ italic = FALSE
    /\ fontSize = None
    /\ color = None
    /\ currentMargin = NoMargin
    /\ lastIndex = 0
    /\ tags = <<>>
    /\ ppc = "scan"

\* ParseMatch with margin: currentMargin pushed without the clone: a margin tag,
\* which updates the record in place, then shows in the fragments that hold it
ParseMatchSharedMargin ==
    /\ ppc = "scan"
    /\ HasMatch(line, lastIndex)
    /\ LET match == NextMatch(line, lastIndex)
           st == ApplyTag(Style, match.tag)
           pushed == IF match.index > lastIndex
                     THEN Append(fragments,
                                 Fragment(slice(line, lastIndex, match.index), Style))
                     ELSE fragments
       IN  /\ fragments' = IF marginRegex(match.tag)
                           THEN [k \in 1..Len(pushed) |->
                                   IF pushed[k].margin = currentMargin
                                   THEN [pushed[k] EXCEPT !.margin = st.currentMargin]
                                   ELSE pushed[k]]
                           ELSE pushed
           /\ bold' = st.bold
           /\ italic' = st.italic
           /\ fontSize' = st.fontSize
           /\ color' = st.color
           /\ currentMargin' = st.currentMargin
           /\ tags' = Append(tags, match.tag)
           /\ lastIndex' = match.end
    /\ UNCHANGED <<line, ppc>>
    /\ UNCHANGED <<gvars, cvars>>

\* index.ts 132-175: one iteration of for (const match of line.matchAll(regex))
ParseMatch ==
    /\ ppc = "scan"
    /\ HasMatch(line, lastIndex)
    /\ LET match == NextMatch(line, lastIndex)
           st == ApplyTag(Style, match.tag)
       IN  /\ fragments' = IF match.index > lastIndex
                           THEN Append(fragments,
                                       Fragment(slice(line, lastIndex, match.index), Style))
                           ELSE fragments
           /\ bold' = st.bold
           /\ italic' = st.italic
           /\ fontSize' = st.fontSize
           /\ color' = st.color
           /\ currentMargin' = st.currentMargin
           /\ tags' = Append(tags, match.tag)
           /\ lastIndex' = match.end
    /\ UNCHANGED <<line, ppc>>
    /\ UNCHANGED <<gvars, cvars>>

\* index.ts 176-188: the text after the last tag, and the return
ParseEnd ==
    /\ ppc = "scan"
    /\ ~HasMatch(line, lastIndex)
    /\ fragments' = IF lastIndex < Len(line)
                    THEN Append(fragments, Fragment(slice(line, lastIndex, Len(line)), Style))
                    ELSE fragments
    /\ ppc' = "done"
    /\ UNCHANGED <<line, bold, italic, fontSize, color, currentMargin, lastIndex, tags>>
    /\ UNCHANGED <<gvars, cvars>>

(***************************************************************************)
(* JavaScript numbers that may leave the integers: the layout loop takes   *)
(* Math.max of a possibly empty list.                                      *)
(***************************************************************************)
Fin(n) == [k |-> "fin", v |-> n]
PosInf == [k |-> "inf", v |-> 1]
NegInf == [k |-> "inf", v |-> 0 - 1]
NaN == [k |-> "nan", v |-> 0]

\* a + b
Add(a, b) ==
    IF a.k = "nan" \/ b.k = "nan" THEN NaN
    ELSE IF a.k = "fin" /\ b.k = "fin" THEN Fin(a.v + b.v)
    ELSE IF a.k = "inf" /\ b.k = "inf" THEN (IF a.v = b.v THEN a ELSE NaN)
    ELSE IF a.k = "inf" THEN a ELSE b
\* -a
Neg(a) == IF a.k = "nan" THEN NaN ELSE [k |-> a.k, v |-> 0 - a.v]
\* a - b
Sub(a, b) == Add(a, Neg(b))
\* a < b
Lt(a, b) ==
    IF a.k = "nan" \/ b.k = "nan" THEN FALSE
    ELSE IF a.k = "fin" /\ b.k = "fin" THEN a.v < b.v
    ELSE IF a.k = "inf" /\ b.k = "inf" THEN a.v < b.v
    ELSE IF a.k = "inf" THEN a.v < 0 ELSE b.v > 0

\* Math.max(...ns) of a list of integers: -Infinity when the list is empty
MathMax(ns) ==
    IF ns = <<>> THEN NegInf
    ELSE Fin(CHOOSE m \in {ns[k] : k \in 1..Len(ns)} : \A k \in 1..Len(ns) : ns[k] <= m)

(***************************************************************************)
(* generatePdf: settings.                                                  *)
(***************************************************************************)
DefaultFontSize == 14
DefaultLineGap == 10
DefaultPageSize == <<595, 842>>
DefaultMargin == [top |-> 50, left |-> 50]
DefaultOutputDir == "cwd/generated"
DefaultDocumentName == "document"
Black == [r |-> 0, g |-> 0, b |-> 0]

\* a || b || c on optional strings: undefined and "" are falsy
TruthyStr(o) == o # None /\ Get(o) # ""
OrStr(a, b, d) == IF TruthyStr(a) THEN Get(a) ELSE IF TruthyStr(b) THEN Get(b) ELSE d
\* a || b || c on optional objects: only undefined is falsy
OrObj(a, b, d) == IF a # None THEN Get(a) ELSE IF b # None THEN Get(b) ELSE d
\* a || d on an optional number: undefined and 0 are falsy
OrNum(a, d) == IF a # None /\ Get(a) # 0 THEN Get(a) ELSE d

\* resolveColor: the result's components times 255
resolveColor(c) ==
    IF c = None THEN Black
    ELSE IF Get(c).kind = "rgb" THEN Get(c).rgb
    ELSE IF Get(c).kind = "hex" THEN hexToRgb(Get(c).hex)
    ELSE Black

EmptyConfig == [pageSize |-> None, fontSize |-> None, lineHeight |-> None, color |-> None,
                margin |-> None, documentName |-> None, outputDir |-> None]

\* loadConfig (config.ts 15-38): the .js module is looked for first, then the .json
\* file; a file that does not load throws
loadConfig(cf) ==
    IF cf.js # "absent"
    THEN (IF cf.js = "malformed" THEN [ok |-> FALSE, config |-> EmptyConfig]
          ELSE [ok |-> TRUE, config |-> cf.jsContent])
    ELSE IF cf.json # "absent"
    THEN (IF cf.json = "malformed" THEN [ok |-> FALSE, config |-> EmptyConfig]
          ELSE [ok |-> TRUE, config |-> cf.jsonContent])
    ELSE [ok |-> TRUE, config |-> EmptyConfig]

\* index.ts 204-206, 223, 226, 228, 229
Resolve(o, c) ==
    LET fsz == OrNum(c.fontSize, DefaultFontSize)
    IN  [outputDir |-> OrStr(o.outputDirProp, c.outputDir, DefaultOutputDir),
         documentName |-> OrStr(o.documentNameProp, c.documentName, DefaultDocumentName),
         margin |-> OrObj(o.marginProp, c.margin, DefaultMargin),
         pageSize |-> OrObj(c.pageSize, None, DefaultPageSize),
         fontSize |-> fsz,
         lineHeight |-> OrElse(c.lineHeight, fsz + DefaultLineGap),
         color |-> resolveColor(c.color)]

(***************************************************************************)
(* generatePdf: the layout loop (index.ts 235-273).                        *)
(***************************************************************************)
\* text.split("\n")
RECURSIVE split(_)
split(s) ==
    IF \E k \in 1..Len(s) : s[k] = "\n"
    THEN LET k == CHOOSE j \in 1..Len(s) : s[j] = "\n" /\ \A h \in 1..(j - 1) : s[h] # "\n"
         IN  <<SubSeq(s, 1, k - 1)>> \o split(SubSeq(s, k + 1, Len(s)))
    ELSE <<s>>

\* index.ts 244-251
usedFont(frag) ==
    IF frag.bold /\ frag.italic THEN "boldItalic"
    ELSE IF frag.bold THEN "bold"
    ELSE IF frag.italic THEN "italic"
    ELSE "normal"

\* font.widthOfTextAtSize(text, size) of the embedded font: the glyph advances of
\* the text scaled by the size; the bold faces are the wider ones
widthOfTextAtSize(font, text, size) ==
    Len(text) * size * (IF font \in {"bold", "boldItalic"} THEN 2 ELSE 1)

\* the drawText calls of one line: for (const frag of fragments), from x on
RECURSIVE drawLine(_, _, _, _, _, _)
drawLine(frs, j, x, yy, r, n) ==
    IF j > Len(frs) THEN <<>>
    ELSE LET frag == frs[j]
             size == OrElse(frag.fontSize, r.fontSize)
             fragX == x + OrElse(frag.margin.left, 0)
             call == [line |-> n, idx |-> j, text |-> frag.text, x |-> fragX, y |-> yy,
                      size |-> size, font |-> usedFont(frag),
                      color |-> OrElse(frag.color, r.color)]
             nx == x + widthOfTextAtSize(usedFont(frag), frag.text, size)
                     + OrElse(frag.margin.right, 0)
         IN  <<call>> \o drawLine(frs, j + 1, nx, yy, r, n)

marginTops(frs) == [j \in 1..Len(frs) |-> OrElse(frs[j].margin.top, 0)]
marginBottoms(frs) == [j \in 1..Len(frs) |-> OrElse(frs[j].margin.bottom, 0)]

(***************************************************************************)
(* generatePdf before it is called.                                        *)
(***************************************************************************)
NoOpts == [text |-> <<>>, outputDirProp |-> None, documentNameProp |-> None,
           marginProp |-> None]
NoFile == [js |-> "absent", json |-> "absent", jsContent |-> EmptyConfig,
           jsonContent |-> EmptyConfig]
NoFs == [dirs |-> {}, files |-> {}]
NoResolved == Resolve(NoOpts, EmptyConfig)

GenIdle ==
    /\ pc = "idle" /\ opts = NoOpts /\ configFile = NoFile /\ config = EmptyConfig
    /\ resolved = NoResolved /\ fs = NoFs /\ lineNo = 0 /\ y = Fin(0)
    /\ draws = <<>> /\ ytrace = <<>> /\ failure = ""

(***************************************************************************)
(* The inputs of generatePdf.                                              *)
(***************************************************************************)
TextPieces ==
    { <<"x">>,
      <<"\n">>,
      <<"<", "m", "l", "1", "0", ">">>,
      <<"<", "m", "r", "3", ">">>,
      <<"<", "m", "t", "4", ">">>,
      <<"<", "/", "m", ">">> }

ExampleTexts ==
    { <<"<", "b", ">", "H", "i", "<", "/", "b", ">", " ", "<", "2", "4", ">", "B", "i", "g", "<", "/", "2", "4", ">">>,
      <<"<", "#", "F", "F", "0", "0", "0", "0", ">", "R", "e", "d", "<", "/", "#", ">", "N", "o", "r", "m", "a", "l">>,
      <<"a", "\n", "\n", "b", "\n", "<", "b", ">", "\n", "c">>,
      <<"<", "m", "b", "5", ">", "x", "<", "1", "8", ">", "y", "\n", "<", "b", ">", "<", "i", ">", "z", "<", "/", "i", ">", "w">>,
      <<"<", "m", "l", "1", "0", ">", "<", "m", "r", "3", ">", "x", "<", "/", "m", ">", "y", "<", "m", "l", "7", ">", "<", "b", ">", "z">> }

Texts == { Flatten(ps) : ps \in PieceSeqs(TextPieces, MaxTextPieces) } \cup ExampleTexts

OptStrings(v) == {None, Some(""), Some(v)}

\* configurations that name the output
NamingConfigs ==
    { [EmptyConfig EXCEPT !.outputDir = d, !.documentName = n, !.margin = m] :
        d \in OptStrings("cfgdir"), n \in OptStrings("report"),
        m \in {None, Some([top |-> 30, left |-> 40])} }

\* configurations that set the page, the sizes and the colour
MetricConfigs ==
    { [EmptyConfig EXCEPT !.fontSize = f, !.lineHeight = h, !.pageSize = p, !.color = c] :
        f \in {None, Some(0), Some(20)}, h \in {None, Some(0), Some(18)},
        p \in {None, Some(<<612, 792>>)},
        c \in {None, Some([kind |-> "rgb", rgb |-> [r |-> 1, g |-> 2, b |-> 3], hex |-> <<>>]),
               Some([kind |-> "hex", rgb |-> Black, hex |-> <<"#", "F", "F", "8", "0", "0", "0">>])} }

Configs == NamingConfigs \cup MetricConfigs

ConfigFiles ==
    { NoFile, [NoFile EXCEPT !.json = "malformed"], [NoFile EXCEPT !.js = "malformed"] }
    \cup { [NoFile EXCEPT !.json = "valid", !.jsonContent = c] : c \in Configs }
    \cup { [NoFile EXCEPT !.js = "valid", !.jsContent = c, !.json = j] :
             c \in {EmptyConfig, [EmptyConfig EXCEPT !.documentName = Some("report")]},
             j \in {"absent", "malformed"} }

Options ==
    { [text |-> <<"x">>, outputDirProp |-> d, documentNameProp |-> n, marginProp |-> m] :
        d \in OptStrings("out"), n \in OptStrings("doc"),
        m \in {None, Some([top |-> 0, left |-> 0]), Some([top |-> 10, left |-> 20])} }

\* a call whose text varies, under the default settings
InitLayoutInputs ==
    /\ opts \in { [NoOpts EXCEPT !.text = txt] : txt \in Texts }
    /\ configFile = NoFile
    /\ fs = NoFs

\* a call whose settings vary, on a one-line text
InitSettingInputs ==
    /\ opts \in Options
    /\ configFile \in ConfigFiles
    /\ fs \in { NoFs, [NoFs EXCEPT !.dirs = {DefaultOutputDir, "out", "cfgdir"}] }

\* the call has been made and nothing has run
InitGen ==
    /\ InitLayoutInputs \/ InitSettingInputs
    /\ pc = "loadConfig"
    /\ config = EmptyConfig
    /\ resolved = NoResolved
    /\ lineNo = 0
    /\ y = Fin(0)
    /\ draws = <<>>
    /\ ytrace = <<>>
    /\ failure = ""

(***************************************************************************)
(* generatePdf, one step per action.                                       *)
(***************************************************************************)
Reject(step) ==
    /\ pc' = "rejected"
    /\ failure' = step

\* index.ts 212
filePath == [dir |-> resolved.outputDir, name |-> resolved.documentName]

\* index.ts 201: const config = await loadConfig()
LoadConfig ==
    /\ pc = "loadConfig"
    /\ LET r == loadConfig(configFile)
       IN  IF r.ok
           THEN /\ config' = r.config
                /\ pc' = "setup"
                /\ UNCHANGED failure
           ELSE /\ Reject("config")
                /\ UNCHANGED config
    /\ UNCHANGED <<opts, configFile, resolved, fs, lineNo, y, draws, ytrace>>
    /\ UNCHANGED <<pvars, cvars>>

\* index.ts 204-219: the settings, the output directory, the document
Setup ==
    /\ pc = "setup"
    /\ resolved' = Resolve(opts, config)
    /\ IF resolved'.outputDir \in fs.dirs
       THEN /\ pc' = "loadFonts"
            /\ UNCHANGED <<fs, failure>>
       ELSE \/ /\ fs' = [fs EXCEPT !.dirs = @ \cup {resolved'.outputDir}]
               /\ pc' = "loadFonts"
               /\ UNCHANGED failure
            \/ /\ Reject("mkdir")
               /\ UNCHANGED fs
    /\ UNCHANGED <<opts, configFile, config, lineNo, y, draws, ytrace>>
    /\ UNCHANGED <<pvars, cvars>>

\* index.ts 220-227 and fonts.ts 23-43: the page, and the four fonts read and embedded
LoadFonts ==
    /\ pc = "loadFonts"
    /\ \E outcome \in {"ok", "fontRead", "fontEmbed"} :
         IF outcome = "ok"
         THEN pc' = "beginLayout" /\ UNCHANGED failure
         ELSE Reject(outcome)
    /\ UNCHANGED <<opts, configFile, config, resolved, fs, lineNo, y, draws, ytrace>>
    /\ UNCHANGED <<pvars, cvars>>

\* index.ts 228-232: let y = height - margin.top
BeginLayout ==
    /\ pc = "beginLayout"
    /\ y' = Fin(resolved.pageSize[2] - resolved.margin.top)
    /\ lineNo' = 0
    /\ pc' = "layout"
    /\ UNCHANGED <<opts, configFile, config, resolved, fs, draws, ytrace, failure>>
    /\ UNCHANGED <<pvars, cvars>>

\* index.ts 235-273: one iteration of for (const line of text.split("\n"))
LayoutLine ==
    /\ pc = "layout"
    /\ lineNo < Len(split(opts.text))
    /\ LET frs == parseMarkup(split(opts.text)[lineNo + 1])
           lineMt == MathMax(marginTops(frs))
           yDraw == Sub(y, lineMt)
           lineMb == MathMax(marginBottoms(frs))
           yAfter == Sub(yDraw, Add(Fin(resolved.lineHeight), lineMb))
       IN  \/ /\ draws' = draws \o drawLine(frs, 1, resolved.margin.left, yDraw, resolved,
                                            lineNo + 1)
              /\ y' = yAfter
              /\ ytrace' = Append(ytrace, [frags |-> Len(frs), before |-> y, at |-> yDraw,
                                           after |-> yAfter])
              /\ lineNo' = lineNo + 1
              /\ UNCHANGED <<pc, failure>>
           \* page.drawText throws
           \/ /\ frs # <<>>
              /\ Reject("drawText")
              /\ UNCHANGED <<draws, y, ytrace, lineNo>>
    /\ UNCHANGED <<opts, configFile, config, resolved, fs>>
    /\ UNCHANGED <<pvars, cvars>>

\* Save with the file opened for writing before the document is serialised
SaveWritesFirst ==
    /\ pc = "layout"
    /\ lineNo = Len(split(opts.text))
    /\ fs' = [fs EXCEPT !.files = @ \cup {filePath}]
    /\ \/ pc' = "write" /\ UNCHANGED failure
       \/ Reject("save")
    /\ UNCHANGED <<opts, configFile, config, resolved, lineNo, y, draws, ytrace>>
    /\ UNCHANGED <<pvars, cvars>>

\* index.ts 276: const pdfBytes = await pdfDoc.save()
Save ==
    /\ pc = "layout"
    /\ lineNo = Len(split(opts.text))
    /\ \/ pc' = "write" /\ UNCHANGED failure
       \/ Reject("save")
    /\ UNCHANGED <<opts, configFile, config, resolved, fs, lineNo, y, draws, ytrace>>
    /\ UNCHANGED <<pvars, cvars>>

\* index.ts 277-279: fs.writeFileSync(filePath, pdfBytes); return filePath
Write ==
    /\ pc = "write"
    /\ \/ /\ fs' = [fs EXCEPT !.files = @ \cup {filePath}]
          /\ pc' = "done"
          /\ UNCHANGED failure
       \/ /\ Reject("write")
          /\ UNCHANGED fs
    /\ UNCHANGED <<opts, configFile, config, resolved, lineNo, y, draws, ytrace>>
    /\ UNCHANGED <<pvars, cvars>>

(***************************************************************************)
(* Several generatePdf calls started together, as by                       *)
(* Promise.all(documents.map(doc => generatePdf({ text: doc.content }))):  *)
(* a call runs from one await to the next without interruption, and the    *)
(* calls interleave at the awaits.  The calls share the configuration      *)
(* file, the clock and the disk; everything else is local to a call.       *)
(***************************************************************************)
Calls == 1..MaxCalls

\* index.ts 235-273: the whole loop, the drawText calls of the lines from line n on
RECURSIVE layoutFrom(_, _, _, _)
layoutFrom(lines, n, yy, r) ==
    IF n > Len(lines) THEN <<>>
    ELSE LET frs == parseMarkup(lines[n])
             yDraw == Sub(yy, MathMax(marginTops(frs)))
             yAfter == Sub(yDraw, Add(Fin(r.lineHeight), MathMax(marginBottoms(frs))))
         IN  drawLine(frs, 1, r.margin.left, yDraw, r, n)
             \o layoutFrom(lines, n + 1, yAfter, r)

\* index.ts 232-273: the page a call draws from its text
layout(text, r) == layoutFrom(split(text), 1, Fin(r.pageSize[2] - r.margin.top), r)

\* index.ts 212: path.join(outputDir, `${documentName}-${Date.now()}.pdf`)
pathAt(r, t) == [dir |-> r.outputDir, name |-> r.documentName, stamp |-> t]

NoPath == pathAt(NoResolved, 0)
NoDisk == [dirs |-> {}, files |-> {}]
NoCall == [pc |-> "idle", opts |-> NoOpts, config |-> EmptyConfig, resolved |-> NoResolved,
           filePath |-> NoPath, doc |-> <<>>, failure |-> ""]

ConcIdle ==
    /\ now = 0
    /\ calls = [i \in Calls |-> NoCall]
    /\ disk = NoDisk

ConcOptions ==
    { [NoOpts EXCEPT !.text = txt, !.documentNameProp = n] :
        txt \in { <<"D", "o", "c", "1">>, <<"<", "b", ">", "D", "o", "c", "2">> },
        n \in {None, Some("doc")} }

\* the configuration file the calls share
ConcConfigFiles ==
    { NoFile, [NoFile EXCEPT !.json = "malformed"],
      [NoFile EXCEPT !.json = "valid",
                     !.jsonContent = [EmptyConfig EXCEPT !.documentName = Some("report")]] }

\* the calls have been made and none has run
InitConc ==
    /\ configFile \in ConcConfigFiles
    /\ pc = "idle" /\ opts = NoOpts /\ config = EmptyConfig
    /\ resolved = NoResolved /\ fs = NoFs /\ lineNo = 0 /\ y = Fin(0)
    /\ draws = <<>> /\ ytrace = <<>> /\ failure = ""
    /\ now = 0
    /\ calls \in [Calls -> { [NoCall EXCEPT !.pc = "loadConfig", !.opts = o] :
                                o \in ConcOptions }]
    /\ disk = NoDisk

RejectCall(i, step) == calls' = [calls EXCEPT ![i].pc = "rejected", ![i].failure = step]

\* the clock moves on to the next millisecond
Tick ==
    /\ now < MaxClock
    /\ now' = now + 1
    /\ UNCHANGED <<calls, disk>>
    /\ UNCHANGED <<pvars, gvars>>

\* index.ts 201
CallLoadConfig(i) ==
    /\ calls[i].pc = "loadConfig"
    /\ LET r == loadConfig(configFile)
       IN  IF r.ok
           THEN calls' = [calls EXCEPT ![i].pc = "setup", ![i].config = r.config]
           ELSE RejectCall(i, "config")
    /\ UNCHANGED <<now, disk>>
    /\ UNCHANGED <<pvars, gvars>>

\* index.ts 204-219
CallSetup(i) ==
    /\ calls[i].pc = "setup"
    /\ LET r == Resolve(calls[i].opts, calls[i].config)
           started == [calls EXCEPT ![i].pc = "loadFonts", ![i].resolved = r,
                                    ![i].filePath = pathAt(r, now)]
       IN  IF r.outputDir \in disk.dirs
           THEN calls' = started /\ UNCHANGED disk
           ELSE \/ /\ disk' = [disk EXCEPT !.dirs = @ \cup {r.outputDir}]
                   /\ calls' = started
                \/ /\ RejectCall(i, "mkdir")
                   /\ UNCHANGED disk
    /\ UNCHANGED now
    /\ UNCHANGED <<pvars, gvars>>

\* index.ts 220-227 and fonts.ts 23-43
CallLoadFonts(i) ==
    /\ calls[i].pc = "loadFonts"
    /\ \E outcome \in {"ok", "fontRead", "fontEmbed"} :
         IF outcome = "ok"
         THEN calls' = [calls EXCEPT ![i].pc = "layout"]
         ELSE RejectCall(i, outcome)
    /\ UNCHANGED <<now, disk>>
    /\ UNCHANGED <<pvars, gvars>>

\* index.ts 228-276: the whole layout, then await pdfDoc.save()
CallLayout(i) ==
    /\ calls[i].pc = "layout"
    /\ \/ calls' = [calls EXCEPT ![i].pc = "write",
                                 ![i].doc = layout(calls[i].opts.text, calls[i].resolved)]
       \/ RejectCall(i, "save")
    /\ UNCHANGED <<now, disk>>
    /\ UNCHANGED <<pvars, gvars>>

\* index.ts 277-279: writeFileSync replaces what the path held
CallWrite(i) ==
    /\ calls[i].pc = "write"
    /\ \/ /\ disk' = [disk EXCEPT !.files = { f \in @ : f.path # calls[i].filePath }
                                         \cup { [path |-> calls[i].filePath,
                                                 doc |-> calls[i].doc] }]
          /\ calls' = [calls EXCEPT ![i].pc = "done"]
       \/ /\ RejectCall(i, "write")
          /\ UNCHANGED disk
    /\ UNCHANGED now
    /\ UNCHANGED <<pvars, gvars>>

(***************************************************************************)
(* Specifications.                                                         *)
(***************************************************************************)
ParseInit == InitParse /\ GenIdle /\ ConcIdle
ParseNext == ParseMatch \/ ParseEnd
SpecParse == ParseInit /\ [][ParseNext]_vars

GenInit == InitGen /\ ParseIdle /\ ConcIdle
GenNext == LoadConfig \/ Setup \/ LoadFonts \/ BeginLayout \/ LayoutLine \/ Save \/ Write
SpecGen == GenInit /\ [][GenNext]_vars

ConcInit == InitConc /\ ParseIdle
ConcNext == Tick \/ \E i \in Calls : CallLoadConfig(i) \/ CallSetup(i) \/ CallLoadFonts(i)
                                      \/ CallLayout(i) \/ CallWrite(i)
SpecConc == ConcInit /\ [][ConcNext]_vars

Init == ParseInit \/ GenInit \/ ConcInit
Next == ParseMatch \/ ParseEnd
        \/ LoadConfig \/ Setup \/ LoadFonts \/ BeginLayout \/ LayoutLine \/ Save \/ Write
        \/ ConcNext
Spec == Init /\ [][Next]_vars

(***************************************************************************)
(* The documented tag grammar, for the properties below:                   *)
(* <b> </b> <i> </i> <N> </N> <#RRGGBB> </#> <mtN> <mbN> <mlN> <mrN> </m>  *)
(***************************************************************************)
DocTag(s) ==
    \/ s \in { <<"b">>, <<"/", "b">>, <<"i">>, <<"/", "i">>, <<"/", "#">>, <<"/", "m">> }
    \/ AllDigits(s)
    \/ (Len(s) >= 2 /\ s[1] = "/" /\ AllDigits(Tail(s)))
    \/ (Len(s) = 7 /\ s[1] = "#" /\ SixHex(Tail(s)))
    \/ (Len(s) >= 3 /\ s[1] = "m" /\ s[2] \in {"t", "b", "l", "r"}
        /\ AllDigits(SubSeq(s, 3, Len(s))))

\* a documented tag starts at 0-based index p
DocTagAt(s, p) ==
    /\ s[p + 1] = "<"
    /\ FirstGt(s, p) < Len(s)
    /\ DocTag(slice(s, p + 1, FirstGt(s, p)))

\* the line from index p on with every documented tag removed
RECURSIVE StripFrom(_, _)
StripFrom(s, p) ==
    IF p >= Len(s) THEN <<>>
    ELSE IF DocTagAt(s, p) THEN StripFrom(s, FirstGt(s, p) + 1)
    ELSE <<s[p + 1]>> \o StripFrom(s, p + 1)

StripDocumented(s) == StripFrom(s, 0)

\* the line is literal text and documented tags only
WellFormed(s) ==
    \A k \in 1..Len(StripDocumented(s)) : StripDocumented(s)[k] \notin {"<", ">"}

RECURSIVE ConcatText(_)
ConcatText(frs) == IF frs = <<>> THEN <<>> ELSE Head(frs).text \o ConcatText(Tail(frs))

Last(q) == q[Len(q)]
IsSizeClose(tag) == Len(tag) >= 2 /\ tag[1] = "/" /\ AllDigits(Tail(tag))
IsClose(tag) == tag = <<"/", "b">> \/ tag = <<"/", "i">> \/ IsSizeClose(tag)
Unstyled(f) == ~f.bold /\ ~f.italic /\ f.fontSize = None /\ f.color = None
               /\ f.margin = NoMargin

(***************************************************************************)
(* C1: for every line of literal text and documented tags, the texts of    *)
(* the fragments parseMarkup returns, concatenated in order, are the line  *)
(* with every tag removed.                                                 *)
(***************************************************************************)
C1_ConcatIsLineWithoutTags ==
    (ppc = "done" /\ WellFormed(line)) => ConcatText(fragments) = StripDocumented(line)

(***************************************************************************)
(* C2: <#RRGGBB> sets the running color and </#> unsets it: the line       *)
(* "<#FF0000>Red</#>Normal" gives "Red" with color {255,0,0} and "Normal"  *)
(* with no color, and once </#> has been read the running color is unset.  *)
(***************************************************************************)
RedNormal == <<"<", "#", "F", "F", "0", "0", "0", "0", ">", "R", "e", "d", "<", "/", "#", ">", "N", "o", "r", "m", "a", "l">>

C2_ColorCloseUnsets ==
    /\ (ppc = "done" /\ line = RedNormal) =>
          /\ Len(fragments) = 2
          /\ fragments[1].text = <<"R", "e", "d">>
          /\ fragments[1].color = Some([r |-> 255, g |-> 0, b |-> 0])
          /\ fragments[2].text = <<"N", "o", "r", "m", "a", "l">>
          /\ fragments[2].color = None
    /\ (ppc = "done" /\ WellFormed(line)
        /\ \E k \in 0..(Len(line) - 1) :
              /\ DocTagAt(line, k)
              /\ slice(line, k + 1, FirstGt(line, k)) = <<"/", "#">>
              /\ FirstGt(line, k) + 1 < Len(line)
              /\ \A h \in (k + 1)..(Len(line) - 1) : ~DocTagAt(line, h))
       => Last(fragments).color = None

(***************************************************************************)
(* C5: parseMarkup consumes as a tag only angle-bracket text of the        *)
(* documented grammar; any other angle-bracket text stays in the text.     *)
(***************************************************************************)
C5_OnlyGrammarTagsConsumed ==
    /\ \A k \in 1..Len(tags) : DocTag(tags[k])
    /\ (ppc = "done" /\ \A p \in 0..(Len(line) - 1) : ~DocTagAt(line, p)) =>
          /\ ConcatText(fragments) = line
          /\ \A k \in 1..Len(fragments) : Unstyled(fragments[k])

(***************************************************************************)
(* C6: a close tag of bold, italic or size sets its field to unset however *)
(* many opens preceded it and whatever number a size close tag carries:    *)
(* a line whose only tags are such close tags has unstyled fragments, and  *)
(* "<12><18>x</12>y" leaves y without a size.                              *)
(***************************************************************************)
SizeNest == <<"<", "1", "2", ">", "<", "1", "8", ">", "x", "<", "/", "1", "2", ">", "y">>

C6_CloseClears ==
    /\ (tags # <<>> /\ Last(tags) = <<"/", "b">>) => bold = FALSE
    /\ (tags # <<>> /\ Last(tags) = <<"/", "i">>) => italic = FALSE
    /\ (tags # <<>> /\ IsSizeClose(Last(tags))) => fontSize = None
    /\ (ppc = "done" /\ \A k \in 1..Len(tags) : IsClose(tags[k])) =>
          \A k \in 1..Len(fragments) : Unstyled(fragments[k])
    /\ (ppc = "done" /\ line = SizeNest) =>
          /\ Len(fragments) = 2
          /\ fragments[1].fontSize = Some(18)
          /\ fragments[2].fontSize = None

\* a size close tag with another number than the open size has been applied
C6_Witness ==
    /\ ppc = "done"
    /\ \E k \in 1..Len(tags) : tags[k] = <<"1", "2">>
    /\ Last(tags) = <<"/", "1", "8">>
    /\ fragments # <<>>
    /\ fontSize = None

(***************************************************************************)
(* C7: a margin tag sets the margin field it names and nothing else;       *)
(* </m> unsets the four margin fields and nothing else; "<mt4><ml10>x" is  *)
(* one fragment with margin {top:4, left:10}.                              *)
(***************************************************************************)
MarginFieldOf(dir) ==
    CASE dir = "t" -> "top" [] dir = "b" -> "bottom" [] dir = "l" -> "left"
      [] dir = "r" -> "right"

C7_Step ==
    (ppc = "scan" /\ Len(tags') = Len(tags) + 1) =>
       LET tag == Last(tags')
       IN  /\ marginRegex(tag) =>
                /\ currentMargin'[MarginFieldOf(tag[2])]
                      = Some(parseInt(SubSeq(tag, 3, Len(tag)), 10))
                /\ \A f \in {"top", "bottom", "left", "right"} \ {MarginFieldOf(tag[2])} :
                      currentMargin'[f] = currentMargin[f]
                /\ <<bold, italic, fontSize, color>>' = <<bold, italic, fontSize, color>>
           /\ tag = <<"/", "m">> =>
                /\ currentMargin' = NoMargin
                /\ <<bold, italic, fontSize, color>>' = <<bold, italic, fontSize, color>>

TopLeft == <<"<", "m", "t", "4", ">", "<", "m", "l", "1", "0", ">", "x">>

C7_Example ==
    (ppc = "done" /\ line = TopLeft) =>
        fragments = << [text |-> <<"x">>, bold |-> FALSE, italic |-> FALSE,
                        fontSize |-> None, color |-> None,
                        margin |-> [NoMargin EXCEPT !.top = Some(4), !.left = Some(10)]] >>

C7_MarginFrame == [][C7_Step]_vars /\ []C7_Example

MarginsThenReset == <<"<", "m", "t", "4", ">", "<", "m", "r", "3", ">", "x", "<", "b", ">", "y", "<", "/", "m", ">", "z">>

\* two margin tags, text, a bold tag, text, </m>, text: all have been applied
C7_Witness ==
    /\ ppc = "done"
    /\ line = MarginsThenReset
    /\ Len(fragments) = 3
    /\ fragments[2].margin = [NoMargin EXCEPT !.top = Some(4), !.right = Some(3)]
    /\ fragments[3].margin = NoMargin
    /\ fragments[3].bold

(***************************************************************************)
(* C3: a line that yields no fragment draws nothing and lowers y by        *)
(* exactly lineHeight.                                                     *)
(***************************************************************************)
C3_EmptyLineAdvance ==
    \A k \in 1..Len(ytrace) :
        ytrace[k].frags = 0 =>
            /\ ytrace[k].after = Sub(ytrace[k].before, Fin(resolved.lineHeight))
            /\ \A d \in 1..Len(draws) : draws[d].line # k

(***************************************************************************)
(* C4: with a positive lineHeight the y of each line is strictly below the *)
(* y of the line before it, empty and tag-only lines included.             *)
(***************************************************************************)
C4_YStrictlyDecreasing ==
    resolved.lineHeight > 0 =>
        \A k \in 1..(Len(ytrace) - 1) : Lt(ytrace[k + 1].at, ytrace[k].at)

(***************************************************************************)
(* C8: of two consecutive fragments F1, F2 of a line, F2 is drawn at the x *)
(* of F1 plus the width of F1 plus F1.margin.right plus F2.margin.left.    *)
(***************************************************************************)
FragmentOf(d) == parseMarkup(split(opts.text)[d.line])[d.idx]

C8_HorizontalAdvance ==
    \A k \in 1..(Len(draws) - 1) :
        draws[k].line = draws[k + 1].line =>
            draws[k + 1].x = draws[k].x
                             + widthOfTextAtSize(draws[k].font, draws[k].text, draws[k].size)
                             + OrElse(FragmentOf(draws[k]).margin.right, 0)
                             + OrElse(FragmentOf(draws[k + 1]).margin.left, 0)

(***************************************************************************)
(* C9: every setting is the call argument if one is supplied, else the     *)
(* configuration value if one is supplied, else the default: page size     *)
(* 595x842, font size 14, line height font size + 10, margin {50, 50}.     *)
(***************************************************************************)
Supplied(a, b, d) == IF a # None THEN Get(a) ELSE IF b # None THEN Get(b) ELSE d
Settled == pc \in {"loadFonts", "beginLayout", "layout", "write", "done"}

C9_Precedence ==
    Settled =>
        /\ resolved.outputDir = Supplied(opts.outputDirProp, config.outputDir, "cwd/generated")
        /\ resolved.documentName
              = Supplied(opts.documentNameProp, config.documentName, "document")
        /\ resolved.margin = Supplied(opts.marginProp, config.margin, [top |-> 50, left |-> 50])
        /\ config.pageSize = None => resolved.pageSize = <<595, 842>>
        /\ config.fontSize = None => resolved.fontSize = 14
        /\ config.lineHeight = None => resolved.lineHeight = resolved.fontSize + 10

(***************************************************************************)
(* C10: a call that is rejected has written no PDF file; the file is       *)
(* written only as the last effect, after the configuration and the fonts  *)
(* have loaded and every line has been laid out; a call rejected by the    *)
(* configuration has done no layout work.                                  *)
(***************************************************************************)
C10_NoFileOnFailure ==
    /\ pc = "rejected" => fs.files = {}
    /\ fs.files # {} =>
          /\ pc = "done"
          /\ failure = ""
          /\ fs.files = {filePath}
          /\ lineNo = Len(split(opts.text))
          /\ Len(ytrace) = Len(split(opts.text))
          /\ loadConfig(configFile).ok
    /\ pc = "done" => fs.files = {filePath}
    /\ failure = "config" =>
          /\ pc = "rejected"
          /\ lineNo = 0 /\ draws = <<>> /\ ytrace = <<>>
          /\ fs.dirs \in {{}, {DefaultOutputDir, "out", "cfgdir"}}
    /\ failure # "" <=> pc = "rejected"

\* the whole text has been laid out and drawn, and then saving failed
C10_Witness ==
    /\ pc = "rejected"
    /\ failure = "save"
    /\ draws # <<>>
    /\ fs.files = {}

(***************************************************************************)
(* C12: a fragment carries the style state as it was before the tag that   *)
(* ends it was applied; once emitted it is never changed, whatever tags    *)
(* follow on the line (margin tags and </m> included); the fragments are   *)
(* in the left-to-right order of their text in the line.                   *)
(***************************************************************************)
\* the texts of frs occur in s one after the other, from index from on
RECURSIVE InOrder(_, _, _)
InOrder(frs, s, from) ==
    \/ frs = <<>>
    \/ \E p \in from..(Len(s) - Len(Head(frs).text)) :
          /\ slice(s, p, p + Len(Head(frs).text)) = Head(frs).text
          /\ InOrder(Tail(frs), s, p + Len(Head(frs).text))

C12_Step ==
    /\ Len(fragments') >= Len(fragments)
    /\ \A k \in 1..Len(fragments) : fragments'[k] = fragments[k]
    /\ Len(fragments') > Len(fragments) =>
          /\ Len(fragments') = Len(fragments) + 1
          /\ Last(fragments').text # <<>>
          /\ Last(fragments').text = slice(line, lastIndex, lastIndex + Len(Last(fragments').text))
          /\ Last(fragments').bold = bold
          /\ Last(fragments').italic = italic
          /\ Last(fragments').fontSize = fontSize
          /\ Last(fragments').color = color
          /\ Last(fragments').margin = currentMargin

C12_FragmentsFrozen == [][C12_Step]_vars /\ [](InOrder(fragments, line, 0))

\* a fragment was emitted, then a margin tag updated the running margin in place,
\* then a second fragment was emitted
C12_Witness ==
    /\ ppc = "done"
    /\ Len(fragments) = 2
    /\ tags = << <<"m", "t", "4">> >>
    /\ fragments[1].margin = NoMargin
    /\ fragments[2].margin = [NoMargin EXCEPT !.top = Some(4)]

(***************************************************************************)
(* C11: calls running together do not affect one another: the document of  *)
(* each call is the layout of its own text, the path a call returns names  *)
(* a file that holds that call's document, and N calls leave N files.      *)
(***************************************************************************)
C11_CallsIndependent ==
    /\ \A i \in Calls :
          calls[i].pc \in {"write", "done"} =>
              calls[i].doc = layout(calls[i].opts.text, calls[i].resolved)
    /\ \A i \in Calls :
          calls[i].pc = "done" =>
              \E f \in disk.files : f.path = calls[i].filePath /\ f.doc = calls[i].doc
    /\ (\A i \in Calls : calls[i].pc = "done") => Cardinality(disk.files) = MaxCalls

====
